---- MODULE Spec2Model ----
(***************************************************************************)
(* Model of the Nostr Connect signer of keystr-rs (src/model/signer.rs):   *)
(* the Signer (connection manager), its SignerConnection (relay client,    *)
(* pending request queue behind a mutex), the background connect task, the *)
(* background listen loop and the operator actions of the UI thread.       *)
(***************************************************************************)
EXTENDS Integers, Sequences, FiniteSets, TLC

\* ------------------------------------------------------------------ bounds

\* Number of SignerConnection objects the Signer may create in one run.
MaxConns == 2
\* Number of inbound relay events delivered in one run.
MaxQueueMsgs == 3
\* Number of keypairs generated in one run.
MaxKeyGens == 3
\* Number of worker threads of the largest runtime.
MaxWorkers == 2
\* Number of inbound relay events delivered in one run with a reconnect.
MaxStaleMsgs == 2

ConnIds == 1..MaxConns

\* ------------------------------------------------------------ data: keys

\* Signer::app_id_keys, the keys of the relay client (KeystrModel::new).
AppIdKeys == "app_id"
\* Public key of the KeySigner (the key that signs delegated events).
SignerPubkey == "signer_pk"
\* Public keys of remote parties that send events to the signer.
Pubkeys == {"pkA", "pkB"}

\* --------------------------------------------------------- data: the URI

\* A connect URI string, by its parts: <<scheme, public key, relay url>>.
ValidUris ==
  { <<"nostrconnect", "pkA", "wss://r1">>, <<"nostrconnect", "pkB", "wss://r2">> }
MalformedUris ==
  { <<"http", "pkA", "wss://r1">>, <<"nostrconnect", "nokey", "wss://r1">>,
    <<"nostrconnect", "pkA", "">> }
UriInputs == ValidUris \cup MalformedUris

\* NostrConnectURI::from_str: the parsed descriptor, or a parse error.
NostrConnectURI_from_str(uri_str) ==
  IF uri_str[1] = "nostrconnect" /\ uri_str[2] \in Pubkeys /\ uri_str[3] # ""
  THEN [ok |-> TRUE, public_key |-> uri_str[2], relay_url |-> uri_str[3]]
  ELSE [ok |-> FALSE, public_key |-> "", relay_url |-> ""]

\* ---------------------------------------------------- data: the envelope

\* The id of an unsigned event is the hash of its content; a content is the
\* sequence of its characters.
EventId(content) == <<"hash", content>>
UnsignedEvent(content) == [id |-> EventId(content), content |-> content]

\* Message::Request { id, method, params } and Message::Response { id, .. }.
MsgRequest(id, method, params) ==
  [type |-> "Request", id |-> id, method |-> method, params |-> params]
MsgResponse(id, result) ==
  [type |-> "Response", id |-> id, method |-> "", params |-> result]

\* The methods Message::to_request can extract a Request from.
KnownMethods == {"describe", "get_public_key", "sign_event", "connect"}

\* Message::to_request: the Request of a request message whose method and
\* parameters are well formed; an error for a response or anything else.
to_request(msg) ==
  IF msg.type = "Request" /\ msg.method \in KnownMethods
  THEN [ok |-> TRUE, method |-> msg.method, params |-> msg.params]
  ELSE [ok |-> FALSE, method |-> "", params |-> <<>>]

\* Message::response(id, Response::X(..)).
ResponseDescribe(values) == [kind |-> "Describe", value |-> values]
ResponseGetPublicKey(pk) == [kind |-> "GetPublicKey", value |-> pk]
ResponseSignEvent(sig) == [kind |-> "SignEvent", value |-> sig]

\* KeySigner::sign on the bytes of an event id; KeySigner::get_public_key.
Signature(bytes) == <<"sig", SignerPubkey, bytes>>

\* What an inbound relay event of kind NostrConnect can hold once it reaches
\* the listen loop: a body that does not decrypt, a body that decrypts to
\* something that is no envelope, or an envelope.  The envelope's id is set
\* on arrival (clients draw distinct request ids).
Payloads ==
  { [sender |-> "pkA", decrypts |-> TRUE,  json |-> TRUE,  type |-> "Request",
     method |-> "describe", params |-> <<>>],
    [sender |-> "pkB", decrypts |-> TRUE,  json |-> TRUE,  type |-> "Request",
     method |-> "get_public_key", params |-> <<>>],
    [sender |-> "pkA", decrypts |-> TRUE,  json |-> TRUE,  type |-> "Request",
     method |-> "sign_event", params |-> UnsignedEvent(<<"h", "i">>)],
    [sender |-> "pkB", decrypts |-> TRUE,  json |-> TRUE,  type |-> "Request",
     method |-> "sign_event", params |-> UnsignedEvent(<<"b", "y", "e">>)],
    [sender |-> "pkA", decrypts |-> TRUE,  json |-> TRUE,  type |-> "Request",
     method |-> "connect", params |-> <<"pkA">>],
    [sender |-> "pkB", decrypts |-> TRUE,  json |-> TRUE,  type |-> "Request",
     method |-> "delegate", params |-> <<>>],
    [sender |-> "pkA", decrypts |-> TRUE,  json |-> TRUE,  type |-> "Response",
     method |-> "", params |-> <<"ack">>],
    [sender |-> "pkB", decrypts |-> TRUE,  json |-> FALSE, type |-> "",
     method |-> "", params |-> <<>>],
    [sender |-> "pkA", decrypts |-> FALSE, json |-> FALSE, type |-> "",
     method |-> "", params |-> <<>>] }

\* The envelope an inbound event decodes to (Message::from_json).
EnvelopeOf(ev) ==
  IF ev.type = "Request" THEN MsgRequest(ev.id, ev.method, ev.params)
  ELSE MsgResponse(ev.id, ev.params)

\* ------------------------------------------------------------------ state

VARIABLES
  connection,   \* Signer::connection: 0 (None) or the id of the connection
  conns,        \* the SignerConnection objects created so far, by id
  relay,        \* per connection: status of the relay of its relay_client
  requests,     \* per connection: SignerConnection::requests (the Vec)
  lock,         \* per connection: holder of the requests mutex
  ctask,        \* per connection: position of the relay_connect task
  loop,         \* per connection: position of wait_and_handle_messages
  inbox,        \* per connection: notifications not yet received by the loop
  handled,      \* per connection: notifications the loop received, in order
  op,           \* the UI thread: position inside an operator action
  dtask,        \* the spawned relay_disconnect task and its result channel
  status,       \* last text set on the StatusMessages of the UI thread
  published,    \* per connection: every send_message call on its client
  signed,       \* per connection: every KeySigner::sign call
  removed,      \* per connection: every entry removed from its requests
  EVENT_QUEUE,  \* the pushes onto EVENT_QUEUE, by the pushing connection
  arrived,      \* number of inbound events delivered so far
  panicked,     \* the UI thread panicked (the process is gone)
  own_keys,     \* KeystrModel::own_keys: "none" or the keypair of the Keystore
  modal,        \* KeystrModel::modal: the confirmation dialog, open or not
  keygen,       \* number of keypairs generated so far
  workers       \* number of worker threads of the tokio runtime

vars ==
  << connection, conns, relay, requests, lock, ctask, loop, inbox, handled, op,
     dtask, status, published, signed, removed, EVENT_QUEUE, arrived,
     panicked, own_keys, modal, keygen, workers >>

\* The part of the KeystrModel beside its Signer.
keys_vars == << own_keys, modal, keygen >>

\* KeystrModel::modal without a dialog (None).
NoModal == [open |-> FALSE, next |-> "None"]

\* Number of SignerConnection objects created so far.
NConns == Len(conns)

\* KeystrModel::init: a Signer without connection, nothing spawned, nothing
\* queued, no dialog; the keys were loaded from the storage or were not.
\* The runtime is the largest one: a task that finds no free worker thread
\* only waits, so every run of a smaller runtime is a run of this one.
Init ==
  /\ workers = MaxWorkers
  /\ own_keys \in {"none", SignerPubkey}
  /\ modal = NoModal
  /\ keygen = 0
  /\ connection = 0
  /\ conns = <<>>
  /\ relay = [c \in ConnIds |-> "none"]
  /\ requests = [c \in ConnIds |-> <<>>]
  /\ lock = [c \in ConnIds |-> "free"]
  /\ ctask = [c \in ConnIds |-> "none"]
  /\ loop = [c \in ConnIds |-> "none"]
  /\ inbox = [c \in ConnIds |-> <<>>]
  /\ handled = [c \in ConnIds |-> <<>>]
  /\ op = [pc |-> "idle", desc |-> <<>>, conn |-> 0]
  /\ dtask = "none"
  /\ status = <<>>
  /\ published = [c \in ConnIds |-> <<>>]
  /\ signed = [c \in ConnIds |-> <<>>]
  /\ removed = [c \in ConnIds |-> <<>>]
  /\ EVENT_QUEUE = [c \in ConnIds |-> <<>>]
  /\ arrived = 0
  /\ panicked = FALSE

\* ------------------------------------------------------------ the runtime

\* The worker threads that a task keeps to itself: a listen task that waits
\* in Mutex::lock (add_request) parks the thread it runs on.
parked_workers == Cardinality({ c \in ConnIds : loop[c] = "locking" })

\* handle.spawn(..) and the await points: a task of the runtime goes on only
\* on a worker thread that is not parked.
worker_free == parked_workers < workers

\* --------------------------------------------------------- status query

\* SignerConnection::get_connected_count_bg: (connected, connecting) over the
\* relays of the client; a connection's client has at most its one relay.
get_connected_count_bg(c) ==
  << IF relay[c] = "connected" THEN 1 ELSE 0,
     IF relay[c] = "connecting" THEN 1 ELSE 0 >>

\* Signer::get_connection_status that takes a failed query for a pending one.
get_connection_status_pending(queryFails) ==
  IF connection = 0 THEN "NotConnected"
  ELSE IF queryFails THEN "Connecting"
  ELSE LET cnt == get_connected_count_bg(connection) IN
       IF cnt[1] > 0 THEN "Connected"
       ELSE IF cnt[2] > 0 THEN "Connecting"
       ELSE "NotConnected"

\* Signer::get_connection_status.  queryFails: the result channel of the
\* spawned count task broke (get_connected_count returned Err).
get_connection_status(queryFails) ==
  IF connection = 0 THEN "NotConnected"
  ELSE IF queryFails THEN "NotConnected"
  ELSE LET cnt == get_connected_count_bg(connection) IN
       IF cnt[1] > 0 THEN "Connected"
       ELSE IF cnt[2] > 0 THEN "Connecting"
       ELSE "NotConnected"

\* ------------------------------------------------------------- connect

\* Signer::connect_action: the status text for the result of Signer::connect.
connect_action_status(res) ==
  IF res = "Ok" THEN <<"info", "Signer connecting...">>
  ELSE <<"error", "Could not connect to relay: ", res>>

\* Signer::connect that does not stop at a URI that does not parse.
connect_result_unparsed(uri_str, queryFails) ==
  IF get_connection_status(queryFails) = "Connected"
  THEN "SignerAlreadyConnected"
  ELSE "Ok"

\* Signer::connect, lines 66-70: what it returns for a URI input.
connect_result(uri_str, queryFails) ==
  IF get_connection_status(queryFails) = "Connected"
  THEN "SignerAlreadyConnected"
  ELSE IF ~NostrConnectURI_from_str(uri_str).ok THEN "ParseError"
  ELSE "Ok"

\* Signer::connect_action: Signer::connect on the URI input, then the status.
\* With the result Ok a SignerConnection has been created, relay_connect
\* spawned for it and the connection stored.
connect(uri_str, queryFails) ==
  /\ ~panicked
  /\ op.pc = "idle"
  /\ LET res == connect_result(uri_str, queryFails)
         uri == NostrConnectURI_from_str(uri_str) IN
     /\ status' = connect_action_status(res)
     /\ IF res = "Ok"
        THEN /\ NConns < MaxConns
             /\ conns' = Append(conns,
                  [client_pubkey |-> uri.public_key,
                   relay_str |-> uri.relay_url,
                   app_id_keys |-> AppIdKeys,
                   key_signer |-> SignerPubkey])
             \* relay_connect_async: spawn relay_connect
             /\ ctask' = [ctask EXCEPT ![NConns + 1] = "add_relay"]
             \* Optimistic
             /\ connection' = NConns + 1
        ELSE UNCHANGED << connection, conns, ctask >>
  /\ UNCHANGED << relay, requests, lock, loop, inbox, handled, op, dtask,
                  published, signed, removed, EVENT_QUEUE, arrived,
                  panicked >>
  /\ UNCHANGED keys_vars
  /\ UNCHANGED workers

\* ------------------------------------------- the background connect task

\* send_message: build the event for the receiver and send it to the relay;
\* the call is recorded with its outcome.
send_message(by, c, msg, receiver_pubkey, ok) ==
  [published EXCEPT ![c] =
     Append(@, [by |-> by, to |-> receiver_pubkey, msg |-> msg, ok |-> ok])]

\* EVENT_QUEUE.push(event) on the notifications q pushed so far: the event is
\* added at the end, or the queue does not take it and push returns Err
\* (ok: which of the two).
EVENT_QUEUE_push(q, event, ok) == IF ok THEN Append(q, event) ELSE q

\* relay_connect, up to the first await: relay_client.add_relay(relay_str).
relay_connect_add_relay(c, ok) ==
  /\ ~panicked
  /\ worker_free
  /\ ctask[c] = "add_relay"
  /\ IF ok
     THEN /\ relay' = [relay EXCEPT ![c] = "initialized"]
          /\ ctask' = [ctask EXCEPT ![c] = "connect"]
     ELSE /\ ctask' = [ctask EXCEPT ![c] = "failed"]
          /\ UNCHANGED relay
  /\ UNCHANGED << connection, conns, requests, lock, loop, inbox, handled, op,
                  dtask, status, published, signed, removed, EVENT_QUEUE,
                  arrived, panicked >>
  /\ UNCHANGED keys_vars
  /\ UNCHANGED workers

\* relay_connect between the awaits of add_relay and of send_message:
\* relay_client.connect().await (line 330) starts connecting every relay that
\* is not connected yet and reports no error; start_handler_loop (line 332)
\* then spawns wait_and_handle_messages, which subscribes and waits for
\* notifications, and returns Ok(()).
relay_connect_connect(c) ==
  /\ ~panicked
  /\ worker_free
  /\ ctask[c] = "connect"
  /\ relay' = [relay EXCEPT ![c] =
                 IF relay[c] \in {"connected", "connecting"} THEN relay[c]
                 ELSE "connecting"]
  /\ loop' = [loop EXCEPT ![c] = "running"]
  /\ ctask' = [ctask EXCEPT ![c] = "send_ack"]
  /\ UNCHANGED << connection, conns, requests, lock, inbox, handled, op,
                  dtask, status, published, signed, removed, EVENT_QUEUE,
                  arrived, panicked >>
  /\ UNCHANGED keys_vars
  /\ UNCHANGED workers

\* relay_connect that goes on to the push whatever send_message returned.
relay_connect_goes_on_unchecked(sendOk) == TRUE

\* relay_connect, line 336: send_message(..).await? returns from the task
\* when the send failed; only a successful send goes on to the push.
relay_connect_goes_on(sendOk) == sendOk

\* relay_connect: send the Connect request to the client, then push
\* SignerConnected; either step may fail and ends the task.
relay_connect_send_ack(c, sendOk, pushOk) ==
  /\ ~panicked
  /\ worker_free
  /\ ctask[c] = "send_ack"
  /\ published' =
       send_message("connect", c,
                    MsgRequest(0, "connect", <<conns[c].app_id_keys>>),
                    conns[c].client_pubkey, sendOk)
  /\ IF relay_connect_goes_on(sendOk) /\ pushOk
     THEN /\ EVENT_QUEUE' = [EVENT_QUEUE EXCEPT ![c] =
                                EVENT_QUEUE_push(@, "SignerConnected", pushOk)]
          /\ ctask' = [ctask EXCEPT ![c] = "done"]
     ELSE /\ ctask' = [ctask EXCEPT ![c] = "failed"]
          /\ UNCHANGED EVENT_QUEUE
  /\ UNCHANGED << connection, conns, relay, requests, lock, loop, inbox,
                  handled, op, dtask, status, signed, removed, arrived,
                  panicked >>
  /\ UNCHANGED keys_vars
  /\ UNCHANGED workers

\* The relay pool, on its own: a connecting relay gets connected or gives up,
\* a connected relay drops, a dropped relay is retried.
relay_status_change(c) ==
  /\ ~panicked
  /\ \/ relay[c] = "connecting" /\ relay' = [relay EXCEPT ![c] = "connected"]
     \/ relay[c] = "connecting" /\ relay' = [relay EXCEPT ![c] = "disconnected"]
     \/ relay[c] = "connected" /\ relay' = [relay EXCEPT ![c] = "disconnected"]
     \/ relay[c] = "disconnected" /\ relay' = [relay EXCEPT ![c] = "connecting"]
  /\ UNCHANGED << connection, conns, requests, lock, ctask, loop, inbox,
                  handled, op, dtask, status, published, signed, removed,
                  EVENT_QUEUE, arrived, panicked >>
  /\ UNCHANGED keys_vars
  /\ UNCHANGED workers

\* ---------------------------------------------------------- disconnect

\* Signer::disconnect_action, first part: with a connection, Signer::disconnect
\* spawns relay_disconnect and blocks on its result channel.
disconnect_action_begin ==
  /\ ~panicked
  /\ op.pc = "idle"
  /\ IF connection # 0
     THEN /\ op' = [op EXCEPT !.pc = "disconnecting"]
          /\ dtask' = "running"
     ELSE UNCHANGED << op, dtask >>
  /\ UNCHANGED << connection, conns, relay, requests, lock, ctask, loop,
                  inbox, handled, status, published, signed, removed,
                  EVENT_QUEUE, arrived, panicked >>
  /\ UNCHANGED keys_vars
  /\ UNCHANGED workers

\* relay_disconnect that also ends the listen task of the connection.
relay_disconnect_loop_cancelled(c, outcome) ==
  [loop EXCEPT ![c] = IF @ = "running" THEN "terminated" ELSE @]

\* relay_disconnect and the listen task of the connection: the JoinHandle of
\* start_handler_loop was dropped at the spawn ("TODO: Close loop on
\* disconnect!"), and relay_client.disconnect() is all that is called, so the
\* task is left as it is, with its Arc of the connection.
relay_disconnect_loop(c, outcome) == loop

\* The spawned task: relay_disconnect on the client of the connection, and
\* the send of its result; "dropped": the task ended without sending.
relay_disconnect(outcome) ==
  /\ ~panicked
  /\ worker_free
  /\ dtask = "running"
  /\ dtask' = outcome
  /\ relay' = [relay EXCEPT ![connection] =
                 IF outcome = "ok" /\ relay[connection] # "none"
                 THEN "terminated" ELSE relay[connection]]
  /\ loop' = relay_disconnect_loop(connection, outcome)
  /\ UNCHANGED << connection, conns, requests, lock, ctask, inbox,
                  handled, op, status, published, signed, removed,
                  EVENT_QUEUE, arrived, panicked >>
  /\ UNCHANGED keys_vars
  /\ UNCHANGED workers

\* What relay_disconnect_blocking returns once rx.recv() returned.
relay_disconnect_blocking(outcome) ==
  CASE outcome = "ok" -> "Ok"
    [] outcome = "err" -> "RelayClientError"
    [] OTHER -> "InternalEventQueueReceive"

\* Signer::disconnect: the connection it leaves behind (the ? returns early).
disconnect(res) == IF res = "Ok" THEN 0 ELSE connection

\* Signer::disconnect_action without its line 119.
disconnect_action_connection_left(left) == left

\* Signer::disconnect_action, line 119: the connection is cleared whatever
\* Signer::disconnect left.
disconnect_action_connection(left) == 0

\* Signer::disconnect_action, second part: rx.recv() returned.
disconnect_action_end ==
  /\ ~panicked
  /\ op.pc = "disconnecting"
  /\ dtask \in {"ok", "err", "dropped"}
  /\ connection' =
       disconnect_action_connection(disconnect(relay_disconnect_blocking(dtask)))
  /\ status' = <<"info", "Signer disconnected">>
  /\ dtask' = "none"
  /\ op' = [op EXCEPT !.pc = "idle"]
  /\ UNCHANGED << conns, relay, requests, lock, ctask, loop, inbox, handled,
                  published, signed, removed, EVENT_QUEUE, arrived,
                  panicked >>
  /\ UNCHANGED keys_vars
  /\ UNCHANGED workers

\* ------------------------------------------------------ the request router

\* response_for_message with a SignEvent arm that signs and answers at once.
response_for_message_signs(req_id, req) ==
  CASE req.method = "describe" ->
         [some |-> TRUE,
          msg |-> MsgResponse(req_id,
                    ResponseDescribe(<<"describe", "get_public_key", "sign_event">>))]
    [] req.method = "get_public_key" ->
         [some |-> TRUE,
          msg |-> MsgResponse(req_id, ResponseGetPublicKey(SignerPubkey))]
    [] req.method = "sign_event" ->
         [some |-> TRUE,
          msg |-> MsgResponse(req_id, ResponseSignEvent(Signature(req.params.id)))]
    [] OTHER -> [some |-> FALSE, msg |-> MsgResponse(req_id, <<>>)]

\* response_for_message that answers GetPublicKey with the relay client's key.
response_for_message_app_key(req_id, req) ==
  CASE req.method = "describe" ->
         [some |-> TRUE,
          msg |-> MsgResponse(req_id,
                    ResponseDescribe(<<"describe", "get_public_key", "sign_event">>))]
    [] req.method = "get_public_key" ->
         [some |-> TRUE,
          msg |-> MsgResponse(req_id, ResponseGetPublicKey(AppIdKeys))]
    [] OTHER -> [some |-> FALSE, msg |-> MsgResponse(req_id, <<>>)]

\* response_for_message: the response that can be returned right away.
response_for_message(req_id, req) ==
  CASE req.method = "describe" ->
         [some |-> TRUE,
          msg |-> MsgResponse(req_id,
                    ResponseDescribe(<<"describe", "get_public_key", "sign_event">>))]
    [] req.method = "get_public_key" ->
         [some |-> TRUE,
          msg |-> MsgResponse(req_id, ResponseGetPublicKey(SignerPubkey))]
    [] OTHER -> [some |-> FALSE, msg |-> MsgResponse(req_id, <<>>)]

\* add_request that inserts at the front of the Vec.
add_request_front(q, req, sender_pubkey) ==
  <<[req |-> req, sender_pubkey |-> sender_pubkey]>> \o q

\* SignerConnection::add_request: push at the end of the Vec.
add_request(q, req, sender_pubkey) ==
  Append(q, [req |-> req, sender_pubkey |-> sender_pubkey])

\* handle_request that stores every request it cannot answer right away.
route_store_all(msg) ==
  IF msg.type = "Request"
  THEN LET req == to_request(msg) IN
       IF req.ok
       THEN IF response_for_message(msg.id, req).some THEN "answer"
            ELSE "enqueue"
       ELSE "ignore"
  ELSE "ignore"

\* handle_request, by its outcome for a decoded message: "answer" (a response
\* is sent right away), "enqueue" (stored for the user) or "ignore".
route(msg) ==
  IF msg.type = "Request"
  THEN LET req == to_request(msg) IN
       IF req.ok
       THEN IF response_for_message(msg.id, req).some THEN "answer"
            ELSE IF req.method = "sign_event" THEN "enqueue"
            ELSE "ignore"
       ELSE "ignore"
  ELSE "ignore"

\* ---------------------------------------------------------- the listen loop

\* The relay delivers an event of kind NostrConnect addressed to the client's
\* public key to the notification channel of a subscribed, connected client.
deliver(c, p) ==
  /\ ~panicked
  /\ relay[c] = "connected"
  /\ loop[c] \in {"running", "locking"}
  /\ arrived' = arrived + 1
  /\ inbox' = [inbox EXCEPT ![c] =
                 Append(@, [sender |-> p.sender, decrypts |-> p.decrypts,
                            json |-> p.json, type |-> p.type, id |-> arrived + 1,
                            method |-> p.method, params |-> p.params])]
  /\ UNCHANGED << connection, conns, relay, requests, lock, ctask, loop,
                  handled, op, dtask, status, published, signed, removed,
                  EVENT_QUEUE, panicked >>
  /\ UNCHANGED keys_vars
  /\ UNCHANGED workers

\* wait_and_handle_messages for which a decrypt error is an error of the loop
\* (decrypt(..)? in place of the match).
wait_and_handle_messages_flow_strict(event, how, sendOk, pushOk) ==
  IF ~event.decrypts THEN "terminated"
  ELSE IF ~event.json THEN "terminated"
  ELSE CASE how = "answer" -> IF sendOk THEN "running" ELSE "terminated"
         [] how = "enqueue" -> IF pushOk THEN "running" ELSE "terminated"
         [] OTHER -> "running"

\* wait_and_handle_messages, where one turn of its loop leaves the task: a
\* decrypt error is printed and the loop goes on; Message::from_json(msg)?
\* and handle_request(..).await? return from the function on an error, which
\* handle_request passes on from send_message and from EVENT_QUEUE.push.
wait_and_handle_messages_flow(event, how, sendOk, pushOk) ==
  IF ~event.decrypts THEN "running"
  ELSE IF ~event.json THEN "terminated"
  ELSE CASE how = "answer" -> IF sendOk THEN "running" ELSE "terminated"
         [] how = "enqueue" -> IF pushOk THEN "running" ELSE "terminated"
         [] OTHER -> "running"

\* notifications.recv() that hands out the newest notification of the channel.
notifications_recv_newest(q) ==
  [notification |-> q[Len(q)], rest |-> SubSeq(q, 1, Len(q) - 1)]

\* notifications.recv().await on the channel of the relay client: the oldest
\* notification not yet received, and what stays in the channel.
notifications_recv(q) == [notification |-> Head(q), rest |-> Tail(q)]

\* A listen task that looks the Signer's connection up when it stores a
\* request.
handler_connection_current(c) == IF connection # 0 THEN connection ELSE c

\* The connection of a listen task: the Arc<SignerConnection> that
\* start_handler_loop moved into the task of connection c.
handler_connection(c) == c

\* handle_request came to connection.add_request(..) for a SignEvent request
\* while the UI thread holds the mutex of the queue: self.requests.lock()
\* blocks, and with it the worker thread that runs the listen task.
add_request_blocked(c) ==
  /\ ~panicked
  /\ loop[c] = "running"
  /\ worker_free
  /\ inbox[c] # <<>>
  /\ LET event == notifications_recv(inbox[c]).notification IN
     /\ event.decrypts /\ event.json
     /\ route(EnvelopeOf(event)) = "enqueue"
  /\ lock[c] = "operator"
  /\ loop' = [loop EXCEPT ![c] = "locking"]
  /\ UNCHANGED << connection, conns, relay, requests, lock, ctask, inbox,
                  handled, op, dtask, status, published, signed, removed,
                  EVENT_QUEUE, arrived, panicked >>
  /\ UNCHANGED keys_vars
  /\ UNCHANGED workers

\* One turn of the loop of wait_and_handle_messages: receive the next
\* notification, decrypt, decode, handle_request.  sendOk, pushOk: whether
\* send_message and EVENT_QUEUE.push succeed when they are called.  A turn
\* that was blocked in add_request goes on when the mutex is free.
wait_and_handle_messages(c, sendOk, pushOk) ==
  /\ ~panicked
  /\ \/ loop[c] = "running" /\ worker_free
     \/ loop[c] = "locking"
  /\ inbox[c] # <<>>
  /\ LET event == notifications_recv(inbox[c]).notification
         msg == EnvelopeOf(event)
         how == IF event.decrypts /\ event.json THEN route(msg) ELSE "drop" IN
     /\ inbox' = [inbox EXCEPT ![c] = notifications_recv(@).rest]
     /\ handled' = [handled EXCEPT ![c] = Append(@, event)]
     /\ loop' = [loop EXCEPT ![c] =
                   wait_and_handle_messages_flow(event, how, sendOk, pushOk)]
     /\ CASE how = "answer" ->
               /\ published' =
                    send_message("listen", c,
                                 response_for_message(msg.id, to_request(msg)).msg,
                                 event.sender, sendOk)
               /\ UNCHANGED << requests, EVENT_QUEUE >>
          [] how = "enqueue" ->
               /\ lock[handler_connection(c)] = "free"
               /\ requests' = [requests EXCEPT ![handler_connection(c)] =
                                 add_request(@, msg, event.sender)]
               /\ EVENT_QUEUE' = [EVENT_QUEUE EXCEPT ![c] =
                     EVENT_QUEUE_push(@, "SignerNewRequest", pushOk)]
               /\ UNCHANGED published
          [] OTHER ->
               \* not decrypted, no envelope, or nothing to do for it
               UNCHANGED << requests, published, EVENT_QUEUE >>
  /\ UNCHANGED << connection, conns, relay, lock, ctask, op, dtask, status,
                  signed, removed, arrived, panicked >>
  /\ UNCHANGED keys_vars
  /\ UNCHANGED workers

\* ------------------------------------------------ the pending request queue

PREVIEW_CONTENT_LEN == 100

\* A text (a Rust String) is the sequence of its characters; a character takes
\* one to four bytes in UTF-8.  The characters that are not ASCII are written
\* by their code point.
Utf8Len(ch) ==
  CASE ch = "U+00E9" -> 2
    [] ch = "U+20AC" -> 3
    [] OTHER -> 1

\* The bytes of the characters i.. of a text.
RECURSIVE str_len_from(_, _)
str_len_from(text, i) ==
  IF i > Len(text) THEN 0 ELSE Utf8Len(text[i]) + str_len_from(text, i + 1)

\* str::len: the length of a text in bytes.
str_len(text) == str_len_from(text, 1)

\* The number of characters before byte n of a text, counted from character
\* i on with n bytes to go; -1 when byte n is inside a character or behind
\* the end.
RECURSIVE chars_before(_, _, _)
chars_before(text, i, n) ==
  IF n = 0 THEN i - 1
  ELSE IF i > Len(text) \/ Utf8Len(text[i]) > n THEN -1
  ELSE chars_before(text, i + 1, n - Utf8Len(text[i]))

\* str::is_char_boundary; the slice &text[0..n] panics when it does not hold.
is_char_boundary(text, n) == chars_before(text, 1, n) >= 0

\* &text[0..n] for a byte index n that is a character boundary.
str_slice(text, n) == SubSeq(text, 1, chars_before(text, 1, n))

\* Does shortened_text panic (in the slice)?
shortened_text_panics(text, max_len) ==
  str_len(text) >= max_len /\ ~is_char_boundary(text, max_len)

\* shortened_text, when it does not panic.
shortened_text(text, max_len) ==
  IF str_len(text) < max_len THEN text
  ELSE str_slice(text, max_len) \o <<".", ".">>

\* Does SignatureReqest::description panic?
description_panics(r) ==
  LET req == to_request(r.req) IN
  /\ req.ok
  /\ req.method = "sign_event"
  /\ shortened_text_panics(req.params.content, PREVIEW_CONTENT_LEN)

\* SignatureReqest::description
description(r) ==
  LET req == to_request(r.req) IN
  IF ~req.ok THEN <<"(not request, no action needed)">>
  ELSE IF req.method = "sign_event"
  THEN <<"Signature requested for message: '",
         shortened_text(req.params.content, PREVIEW_CONTENT_LEN), "'">>
  ELSE <<"(", req.method, ", no action needed)">>

\* SignerConnection::get_first_request_description
get_first_request_description(c) ==
  IF requests[c] = <<>> THEN <<"-">> ELSE description(requests[c][1])

\* Does get_first_request_description panic (with the queue locked)?
get_first_request_description_panics(c) ==
  requests[c] # <<>> /\ description_panics(requests[c][1])

\* Vec::pop in place of Vec::remove(0).
remove_first_pop(q) == SubSeq(q, 1, Len(q) - 1)

\* Vec::remove(0) on a Vec that is not empty (it panics on an empty one).
remove_first(q) == Tail(q)

\* action_first_req_process whose last line runs only after a success.
action_first_req_process_remove_on_success(q, succeeded) ==
  IF succeeded THEN remove_first(q) ELSE q

\* action_first_req_process, line 228: locked.remove(0) runs whatever became of
\* the signing and of the send above it (succeeded: whether both went well).
action_first_req_process_remove(q, succeeded) == remove_first(q)

\* The UI thread panics while it holds the mutex of connection c: the mutex
\* is poisoned and the thread unwinds out of the application.
Panic(c) ==
  /\ panicked' = TRUE
  /\ lock' = [lock EXCEPT ![c] = "poisoned"]
  /\ op' = [op EXCEPT !.pc = "panicked"]

\* Signer::pending_process_first_action / pending_ignore_first_action, first
\* statement: with a connection, read the description of the first request
\* (under the queue's lock).
pending_first_action_begin(what) ==
  /\ ~panicked
  /\ op.pc = "idle"
  /\ IF connection # 0
     THEN /\ lock[connection] = "free"
          /\ IF get_first_request_description_panics(connection)
             THEN Panic(connection)
             ELSE /\ op' = [pc |-> what, conn |-> connection,
                            desc |-> get_first_request_description(connection)]
                  /\ UNCHANGED << lock, panicked >>
     ELSE UNCHANGED << op, lock, panicked >>
  /\ UNCHANGED << connection, conns, relay, requests, ctask, loop, inbox,
                  handled, dtask, status, published, signed, removed,
                  EVENT_QUEUE, arrived >>
  /\ UNCHANGED keys_vars
  /\ UNCHANGED workers

\* action_first_req_process with the guard dropped before the send.
hold_lock_released(c) == lock

\* The MutexGuard of action_first_req_process stays alive across the send:
\* the UI thread keeps the mutex of connection c.
hold_lock(c) == [lock EXCEPT ![c] = "operator"]

\* SignerConnection::action_first_req_process up to the blocking send: lock,
\* look at the first request, sign a SignEvent request; with a signature the
\* response is sent under the lock, otherwise the first entry is removed at
\* once.  signOk: whether KeySigner::sign succeeds.
action_first_req_process(signOk) ==
  /\ ~panicked
  /\ op.pc = "process"
  /\ LET c == op.conn IN
     /\ lock[c] = "free"
     /\ IF requests[c] = <<>>
        THEN \* locked.remove(0) on the empty Vec
             /\ Panic(c)
             /\ UNCHANGED << requests, signed, removed, status >>
        ELSE LET first == requests[c][1]
                 req == to_request(first.req) IN
             IF first.req.type = "Request" /\ req.ok /\ req.method = "sign_event"
             THEN /\ signed' = [signed EXCEPT ![c] = Append(@,
                        [id |-> first.req.id, bytes |-> req.params.id,
                         by |-> "process", ok |-> signOk])]
                  /\ IF signOk
                     THEN /\ lock' = hold_lock(c)
                          /\ op' = [op EXCEPT !.pc = "sending"]
                          /\ UNCHANGED << requests, removed, status >>
                     ELSE /\ requests' = [requests EXCEPT ![c] =
                               action_first_req_process_remove(@, FALSE)]
                          /\ removed' = [removed EXCEPT ![c] =
                               Append(@, [id |-> first.req.id, how |-> "process"])]
                          /\ status' = <<"info", "Processed request", op.desc>>
                          /\ op' = [op EXCEPT !.pc = "idle"]
                          /\ UNCHANGED lock
                  /\ UNCHANGED panicked
             ELSE \* ignore other requests
                  /\ requests' = [requests EXCEPT ![c] =
                       action_first_req_process_remove(@, TRUE)]
                  /\ removed' = [removed EXCEPT ![c] =
                               Append(@, [id |-> first.req.id, how |-> "process"])]
                  /\ status' = <<"info", "Processed request", op.desc>>
                  /\ op' = [op EXCEPT !.pc = "idle"]
                  /\ UNCHANGED << lock, signed, panicked >>
  /\ UNCHANGED << connection, conns, relay, ctask, loop, inbox, handled,
                  dtask, published, EVENT_QUEUE, arrived >>
  /\ UNCHANGED keys_vars
  /\ UNCHANGED workers

\* action_first_req_process that answers to the client of the connect URI.
response_receiver_client(c, first) == conns[c].client_pubkey

\* The receiver of the response of action_first_req_process: the sender
\* stored with the request (&req.sender_pubkey).
response_receiver(c, first) == first.sender_pubkey

\* SignerConnection::action_first_req_process from send_message_blocking on:
\* the spawned send_message ran (sendOk: its outcome, which is dropped), the
\* first entry is removed and the lock released.
send_message_blocking(sendOk) ==
  /\ ~panicked
  /\ worker_free
  /\ op.pc = "sending"
  /\ LET c == op.conn
         first == requests[c][1]
         req == to_request(first.req) IN
     /\ published' =
          send_message("process", c,
                       MsgResponse(first.req.id,
                                   ResponseSignEvent(Signature(req.params.id))),
                       response_receiver(c, first), sendOk)
     /\ requests' = [requests EXCEPT ![c] =
                       action_first_req_process_remove(@, sendOk)]
     /\ removed' = [removed EXCEPT ![c] =
                               Append(@, [id |-> first.req.id, how |-> "process"])]
     /\ lock' = [lock EXCEPT ![c] = "free"]
  /\ status' = <<"info", "Processed request", op.desc>>
  /\ op' = [op EXCEPT !.pc = "idle"]
  /\ UNCHANGED << connection, conns, relay, ctask, loop, inbox, handled,
                  dtask, signed, EVENT_QUEUE, arrived, panicked >>
  /\ UNCHANGED keys_vars
  /\ UNCHANGED workers

\* SignerConnection::action_first_req_remove: lock, remove(0).
action_first_req_remove ==
  /\ ~panicked
  /\ op.pc = "ignore"
  /\ LET c == op.conn IN
     /\ lock[c] = "free"
     /\ IF requests[c] = <<>>
        THEN /\ Panic(c)
             /\ UNCHANGED << requests, removed, status >>
        ELSE /\ requests' = [requests EXCEPT ![c] = remove_first(@)]
             /\ removed' = [removed EXCEPT ![c] =
                               Append(@, [id |-> requests[c][1].req.id, how |-> "ignore"])]
             /\ status' = <<"info", "Removed request", op.desc>>
             /\ op' = [op EXCEPT !.pc = "idle"]
             /\ UNCHANGED << lock, panicked >>
  /\ UNCHANGED << connection, conns, relay, ctask, loop, inbox, handled,
                  dtask, published, signed, EVENT_QUEUE, arrived >>
  /\ UNCHANGED keys_vars
  /\ UNCHANGED workers

\* -------------------------------------------------------------- KeystrModel

\* Keystore::keys_is_set
keys_is_set(keys) == keys # "none"

\* Keystore::clear
Keystore_clear(keys) == "none"

\* Keystore::generate: a keypair nobody had before, the n-th of the run.
Keystore_generate(n) == "generated_pk" \o ToString(n)

\* Keystore::load_action: the keypair of the storage becomes the keypair of
\* the Keystore, or the load fails and the Keystore stays as it is; the status
\* tells which (ok: whether it succeeds).
Keystore_load_action(m, ok) ==
  IF ok
  THEN [m EXCEPT !.own_keys = SignerPubkey, !.status = <<"load_action", "Ok">>]
  ELSE [m EXCEPT !.status = <<"load_action", "Err">>]

\* Keystore::import_public_key: the imported public key becomes the key of the
\* Keystore, or the input is refused.
Keystore_import_public_key(keys, ok) == IF ok THEN "imported_pk" ELSE keys

\* Keystore::get_keys: are there keys to return?
get_keys(keys) == keys_is_set(keys)

\* Keystore::get_signer: is there a signer for the keys?
get_signer(keys) == keys_is_set(keys)

\* The actions on the keys and on the dialog.
KeyActions ==
  { "DelegateSign", "KeysClearNoConfirm", "KeysClear", "KeysGenerate",
    "KeysImportPubkey", "KeysLoad", "ConfirmationYes", "ConfirmationNo" }

\* KeystrModel::action that clears the keys when it asks for the confirmation.
open_confirmation_cleared(m, next_action) ==
  [m EXCEPT !.modal = [open |-> TRUE, next |-> next_action],
            !.own_keys = Keystore_clear(@)]

\* KeystrModel::action, the then-branches of KeysClear, KeysGenerate, KeysLoad:
\* self.modal = Some(Modal::Confirmation(KeysClearBeforeAction(next_action))).
open_confirmation(m, next_action) ==
  [m EXCEPT !.modal = [open |-> TRUE, next |-> next_action]]

RECURSIVE action(_, _, _)

\* KeystrModel::action(ConfirmationYes) that closes the dialog and runs the
\* deferred action without clearing the keys first.
confirmation_yes_keeps_keys(m, ok) ==
  IF m.modal.open
  THEN LET prev_next_action == m.modal.next
           closed == [m EXCEPT !.modal = NoModal] IN
       IF prev_next_action # "None"
       THEN action(closed, prev_next_action, ok)
       ELSE closed
  ELSE m

\* KeystrModel::action, the arm of ConfirmationYes: with a
\* KeysClearBeforeAction dialog open, self.modal = None, then
\* self.action(KeysClearNoConfirm), then self.action(next_action) when the
\* dialog recorded one; nothing without a dialog.
confirmation_yes(m, ok) ==
  IF m.modal.open
  THEN LET prev_next_action == m.modal.next
           cleared == action([m EXCEPT !.modal = NoModal],
                             "KeysClearNoConfirm", ok) IN
       IF prev_next_action # "None"
       THEN action(cleared, prev_next_action, ok)
       ELSE cleared
  ELSE m

\* KeystrModel::action on the model m (its keys, dialog and status): the
\* model it leaves.  ok: whether the operation of the Keystore or of the
\* Delegator that it reaches succeeds.
action(m, a, ok) ==
  CASE a = "DelegateSign" ->
         IF ~get_keys(m.own_keys)
         THEN [m EXCEPT !.status = <<"error", "get_keys">>]
         ELSE IF ~ok
         THEN [m EXCEPT !.status = <<"error", "create_delegation">>]
         ELSE [m EXCEPT !.status = <<"info", "Delegation created">>]
    [] a = "KeysClearNoConfirm" ->
         [m EXCEPT !.own_keys = Keystore_clear(@),
                   !.status = <<"info", "Keys cleared">>]
    [] a = "KeysClear" ->
         IF keys_is_set(m.own_keys)
         THEN open_confirmation(m, "None")
         ELSE action(m, "KeysClearNoConfirm", ok)
    [] a = "KeysGenerate" ->
         IF keys_is_set(m.own_keys)
         THEN open_confirmation(m, "KeysGenerate")
         ELSE [m EXCEPT !.modal = NoModal,
                        !.own_keys = Keystore_generate(m.keygen + 1),
                        !.keygen = @ + 1,
                        !.status = <<"info", "New keypair generated">>]
    [] a = "KeysImportPubkey" ->
         [m EXCEPT !.own_keys = Keystore_import_public_key(@, ok),
                   !.status = IF ok THEN <<"info", "Public key imported">>
                              ELSE <<"error", "import_public_key">>]
    [] a = "KeysLoad" ->
         IF keys_is_set(m.own_keys)
         THEN open_confirmation(m, "KeysLoad")
         ELSE Keystore_load_action(m, ok)
    [] a = "ConfirmationYes" -> confirmation_yes(m, ok)
    [] a = "ConfirmationNo" ->
         IF m.modal.open THEN [m EXCEPT !.modal = NoModal] ELSE m
    [] OTHER -> m

\* The UI thread calls KeystrModel::action with an action on the keys or on
\* the dialog.
KeystrModel_action(a, ok) ==
  /\ ~panicked
  /\ op.pc = "idle"
  /\ LET m == action([own_keys |-> own_keys, modal |-> modal,
                      keygen |-> keygen, status |-> status], a, ok) IN
     /\ m.keygen <= MaxKeyGens
     /\ own_keys' = m.own_keys
     /\ modal' = m.modal
     /\ keygen' = m.keygen
     /\ status' = m.status
  /\ UNCHANGED << connection, conns, relay, requests, lock, ctask, loop,
                  inbox, handled, op, dtask, published, signed, removed,
                  EVENT_QUEUE, arrived, panicked >>
  /\ UNCHANGED workers

\* KeystrModel::action(SignerConnect): Signer::connect_action with the signer
\* of the keys, or only a status text when there is none.
SignerConnect(uri_str, queryFails) ==
  IF get_signer(own_keys)
  THEN connect(uri_str, queryFails)
  ELSE /\ ~panicked
       /\ op.pc = "idle"
       /\ status' = <<"info", "Key pair is not loaded or unlocked!">>
       /\ UNCHANGED << connection, conns, relay, requests, lock, ctask, loop,
                       inbox, handled, op, dtask, published, signed, removed,
                       EVENT_QUEUE, arrived, panicked >>
       /\ UNCHANGED keys_vars
       /\ UNCHANGED workers

\* ------------------------------------------------------- the specification

Next ==
  \/ \E u \in UriInputs, f \in BOOLEAN : SignerConnect(u, f)
  \/ disconnect_action_begin
  \/ \E o \in {"ok", "err", "dropped"} : relay_disconnect(o)
  \/ disconnect_action_end
  \/ \E c \in ConnIds, ok \in BOOLEAN : relay_connect_add_relay(c, ok)
  \/ \E c \in ConnIds : relay_connect_connect(c)
  \/ \E c \in ConnIds, s \in BOOLEAN, p \in BOOLEAN : relay_connect_send_ack(c, s, p)
  \/ \E c \in ConnIds : relay_status_change(c)

\* The life cycle of the Signer's connections: connect and disconnect by the
\* operator, the connect tasks and the relays, before any request arrives.
Spec == Init /\ [][Next]_vars

\* The state after connect(<<"nostrconnect", "pkA", "wss://r1">>) and a
\* relay_connect task that ran to its end with the relay connected.
Established ==
  /\ own_keys = SignerPubkey
  /\ modal = NoModal
  /\ keygen = 0
  /\ connection = 1
  /\ conns = << [client_pubkey |-> "pkA", relay_str |-> "wss://r1",
                 app_id_keys |-> AppIdKeys, key_signer |-> SignerPubkey] >>
  /\ relay = [c \in ConnIds |-> IF c = 1 THEN "connected" ELSE "none"]
  /\ requests = [c \in ConnIds |-> <<>>]
  /\ lock = [c \in ConnIds |-> "free"]
  /\ ctask = [c \in ConnIds |-> IF c = 1 THEN "done" ELSE "none"]
  /\ loop = [c \in ConnIds |-> IF c = 1 THEN "running" ELSE "none"]
  /\ inbox = [c \in ConnIds |-> <<>>]
  /\ handled = [c \in ConnIds |-> <<>>]
  /\ op = [pc |-> "idle", desc |-> <<>>, conn |-> 0]
  /\ dtask = "none"
  /\ status = connect_action_status("Ok")
  /\ published = [c \in ConnIds |->
       IF c = 1
       THEN << [by |-> "connect", to |-> "pkA",
                msg |-> MsgRequest(0, "connect", <<AppIdKeys>>), ok |-> TRUE] >>
       ELSE <<>>]
  /\ signed = [c \in ConnIds |-> <<>>]
  /\ removed = [c \in ConnIds |-> <<>>]
  /\ EVENT_QUEUE = [c \in ConnIds |-> IF c = 1 THEN <<"SignerConnected">> ELSE <<>>]
  /\ arrived = 0
  /\ panicked = FALSE

\* The listen loop and the pending queue of one established connection, with
\* the operator's actions on the queue, on the largest runtime.
InitQueue == workers = MaxWorkers /\ Established

NextQueue ==
  \/ \E c \in ConnIds, p \in Payloads : arrived < MaxQueueMsgs /\ deliver(c, p)
  \/ \E c \in ConnIds, s \in BOOLEAN, p \in BOOLEAN : wait_and_handle_messages(c, s, p)
  \/ \E c \in ConnIds : add_request_blocked(c)
  \/ \E w \in {"process", "ignore"} : pending_first_action_begin(w)
  \/ \E ok \in BOOLEAN : action_first_req_process(ok)
  \/ \E ok \in BOOLEAN : send_message_blocking(ok)
  \/ action_first_req_remove

SpecQueue == InitQueue /\ [][NextQueue]_vars

NextKeys ==
  \E a \in KeyActions, ok \in BOOLEAN : KeystrModel_action(a, ok)

\* The keys of the KeystrModel and its confirmation dialog under the actions
\* of the operator, without a connection of the Signer.
SpecKeys == Init /\ [][NextKeys]_vars

\* A text of n times the character ch.
Repeat(ch, n) == [i \in 1..n |-> ch]

\* Contents of unsigned events around the length of the preview: ASCII texts
\* of one byte less, as many and one byte more, and texts with characters of
\* two and of three bytes.
TextContents ==
  { <<"h", "i">>,
    Repeat("a", PREVIEW_CONTENT_LEN - 1),
    Repeat("a", PREVIEW_CONTENT_LEN),
    Repeat("a", PREVIEW_CONTENT_LEN + 1),
    Repeat("U+00E9", PREVIEW_CONTENT_LEN \div 2),
    Repeat("U+20AC", PREVIEW_CONTENT_LEN \div 3 + 1),
    Repeat("a", PREVIEW_CONTENT_LEN - 1) \o <<"U+00E9">> }

\* SignEvent requests with these contents.
TextPayloads ==
  { [sender |-> "pkA", decrypts |-> TRUE, json |-> TRUE, type |-> "Request",
     method |-> "sign_event", params |-> UnsignedEvent(t)] : t \in TextContents }

NextPeek ==
  \/ \E c \in ConnIds, p \in TextPayloads : arrived < MaxQueueMsgs /\ deliver(c, p)
  \/ \E c \in ConnIds, s \in BOOLEAN, p \in BOOLEAN : wait_and_handle_messages(c, s, p)
  \/ pending_first_action_begin("ignore")
  \/ action_first_req_remove

\* The pending queue of one established connection with SignEvent requests of
\* short and long contents: the operator reads the description of the first
\* request and removes it.
SpecPeek == InitQueue /\ [][NextPeek]_vars

\* SignEvent requests of the two senders.
SignEventPayloads == { p \in Payloads : p.decrypts /\ p.json /\ p.method = "sign_event" }

\* An established connection on a runtime of any size.
InitBlock == workers \in 1..MaxWorkers /\ Established

NextBlock ==
  \/ \E c \in ConnIds, p \in SignEventPayloads : arrived < MaxQueueMsgs /\ deliver(c, p)
  \/ \E c \in ConnIds, s \in BOOLEAN, p \in BOOLEAN : wait_and_handle_messages(c, s, p)
  \/ \E c \in ConnIds : add_request_blocked(c)
  \/ pending_first_action_begin("process")
  \/ \E ok \in BOOLEAN : action_first_req_process(ok)
  \/ \E ok \in BOOLEAN : send_message_blocking(ok)

\* Process-first against the listen loop: SignEvent requests arrive while the
\* operator processes the first request of the queue.
SpecBlock == InitBlock /\ [][NextBlock]_vars

\* The connect URI of a second client.
ReconnectUris == { u \in ValidUris : u[2] = "pkB" }

NextStale ==
  \/ \E c \in ConnIds, p \in SignEventPayloads :
       /\ arrived < MaxStaleMsgs
       /\ c <= NConns /\ p.sender = conns[c].client_pubkey
       /\ deliver(c, p)
  \/ \E c \in ConnIds : wait_and_handle_messages(c, TRUE, TRUE)
  \/ pending_first_action_begin("process")
  \/ action_first_req_process(TRUE)
  \/ send_message_blocking(TRUE)
  \/ disconnect_action_begin
  \/ \E o \in {"ok", "dropped"} : relay_disconnect(o)
  \/ disconnect_action_end
  \/ \E u \in ReconnectUris : SignerConnect(u, FALSE)
  \/ \E c \in ConnIds : relay_connect_add_relay(c, TRUE)
  \/ \E c \in ConnIds : relay_connect_connect(c)
  \/ \E c \in ConnIds : relay_connect_send_ack(c, TRUE, TRUE)
  \/ \E c \in ConnIds : relay[c] = "connecting" /\ relay_status_change(c)

\* An established connection with requests of its client arriving, its
\* disconnect (which tears the transport down, or fails to) and the
\* connections that follow it, with the listen loops of all of them; the
\* sends, pushes and signatures succeed.
SpecStale == InitQueue /\ [][NextStale]_vars

\* The state SpecQueue starts from is a state of Spec.
QueueStartReached ==
  /\ connection = 1 /\ Len(conns) = 1 /\ conns[1].client_pubkey = "pkA"
  /\ relay[1] = "connected" /\ loop[1] = "running" /\ ctask[1] = "done"
  /\ requests[1] = <<>> /\ inbox[1] = <<>> /\ op.pc = "idle" /\ dtask = "none"
  /\ status = connect_action_status("Ok")
  /\ Len(published[1]) = 1 /\ published[1][1].ok
  /\ EVENT_QUEUE[1] = <<"SignerConnected">> /\ arrived = 0 /\ ~panicked

\* ================================================================ claims

\* C1: whenever the Signer holds a connection, a further connect with a valid
\* URI fails with SignerAlreadyConnected and the Signer keeps the connection
\* it had (no new SignerConnection takes its place).
C1_SecondConnectFails ==
  [][\A u \in ValidUris, f \in BOOLEAN :
       (connection # 0 /\ connect(u, f)) =>
         /\ status' = connect_action_status("SignerAlreadyConnected")
         /\ connection' = connection
         /\ conns' = conns]_vars

\* Is x a SignEvent response message?
IsSignEventResponse(msg) ==
  msg.type = "Response" /\ msg.params.kind = "SignEvent"

\* C2: KeySigner::sign is called, and a SignEvent response is sent, only by
\* the operator's action_first_req_process, never by the listen loop; and
\* only for a request the loop had put in the queue before.
C2_SignOnlyOnOperatorAction ==
  \A c \in ConnIds :
    /\ \A i \in 1..Len(signed[c]) : signed[c][i].by = "process"
    /\ \A i \in 1..Len(published[c]) :
         IsSignEventResponse(published[c][i].msg) =>
           /\ published[c][i].by = "process"
           /\ \E j \in 1..Len(signed[c]) :
                signed[c][j].id = published[c][i].msg.id /\ signed[c][j].ok
    /\ \A i \in 1..Len(handled[c]) :
         (handled[c][i].json /\ handled[c][i].method = "sign_event") =>
           \A k \in 1..Len(published[c]) :
             published[c][k].by = "listen" =>
               published[c][k].msg.id # handled[c][i].id

\* A sign_event request went through the loop unanswered and was signed and
\* answered by the operator's action later.
C2_Witness ==
  \E c \in ConnIds :
    /\ \E i \in 1..Len(handled[c]) : handled[c][i].method = "sign_event"
    /\ \E i \in 1..Len(signed[c]) : signed[c][i].ok
    /\ \E i \in 1..Len(published[c]) :
         IsSignEventResponse(published[c][i].msg) /\ published[c][i].ok

\* The ids of the requests in a sequence of queue entries / of log entries.
QueueIds(q) == [i \in 1..Len(q) |-> q[i].req.id]
LogIds(l) == [i \in 1..Len(l) |-> l[i].id]
NoDuplicates(ids) ==
  \A i, j \in 1..Len(ids) : i # j => ids[i] # ids[j]
Last(q) == q[Len(q)]

\* C3: a request is removed from the queue at most once and signed at most
\* once; from the signing to the removal of the head the operator holds the
\* queue's lock and no other step changes the queue: the step that ends it
\* sends the response for the head, removes that head and releases the lock.
C3_AtMostOnce_state ==
  /\ \A c \in ConnIds :
       /\ NoDuplicates(LogIds(removed[c]) \o QueueIds(requests[c]))
       /\ NoDuplicates(LogIds(signed[c]))
  /\ op.pc = "sending" =>
       /\ lock[op.conn] = "operator"
       /\ requests[op.conn] # <<>>
       /\ signed[op.conn] # <<>>
       /\ Last(signed[op.conn]).id = requests[op.conn][1].req.id

C3_AtMostOnce_step ==
  op.pc = "sending" =>
    \/ requests' = requests /\ op' = op
    \/ /\ op'.pc = "idle"
       /\ requests' = [requests EXCEPT ![op.conn] = Tail(@)]
       /\ Last(removed'[op.conn]).id = requests[op.conn][1].req.id
       /\ Last(published'[op.conn]).msg.id = requests[op.conn][1].req.id
       /\ signed' = signed
       /\ lock'[op.conn] = "free"

C3_AtMostOnce == [](C3_AtMostOnce_state) /\ [][C3_AtMostOnce_step]_vars

\* The listen loop waits with a request for the queue while the operator is
\* between signing and removing the head of a queue of two.
C3_Witness ==
  /\ op.pc = "sending"
  /\ Len(requests[op.conn]) = 2
  /\ inbox[op.conn] # <<>>
  /\ Head(inbox[op.conn]).method = "sign_event"

\* C4: process-first and ignore-first on an empty queue return normally and
\* change nothing: no panic, the queue's mutex stays usable, nothing is
\* signed or sent.
C4_EmptyQueueNoop ==
  [][(op.pc \in {"process", "ignore"} /\ requests[op.conn] = <<>> /\ op' # op) =>
       /\ op'.pc = "idle"
       /\ ~panicked'
       /\ lock' = lock
       /\ requests' = requests
       /\ signed' = signed
       /\ published' = published]_vars

StrictlyIncreasing(ids) ==
  \A i, j \in 1..Len(ids) : i < j => ids[i] < ids[j]

\* C5: the queue is FIFO.  Requests are numbered in the order they reach the
\* signer: the removed requests followed by the queued ones are in that
\* order, and a step changes a queue only by appending one entry at its tail
\* or by removing its head.
C5_Fifo_state ==
  \A c \in ConnIds :
    StrictlyIncreasing(LogIds(removed[c]) \o QueueIds(requests[c]))

C5_Fifo_step ==
  \A c \in ConnIds :
    \/ requests'[c] = requests[c] /\ removed'[c] = removed[c]
    \/ /\ Len(requests'[c]) = Len(requests[c]) + 1
       /\ SubSeq(requests'[c], 1, Len(requests[c])) = requests[c]
       /\ removed'[c] = removed[c]
    \/ /\ requests[c] # <<>>
       /\ requests'[c] = Tail(requests[c])
       /\ Len(removed'[c]) = Len(removed[c]) + 1
       /\ SubSeq(removed'[c], 1, Len(removed[c])) = removed[c]
       /\ Last(removed'[c]).id = requests[c][1].req.id

C5_Fifo == [](C5_Fifo_state) /\ [][C5_Fifo_step]_vars

\* Of three requests the first was processed, the second ignored and the
\* third is still queued.
C5_Witness ==
  \E c \in ConnIds :
    /\ Len(removed[c]) = 2 /\ Len(requests[c]) = 1
    /\ removed[c][1].how = "process" /\ removed[c][2].how = "ignore"
    /\ removed[c][1].id < removed[c][2].id
    /\ removed[c][2].id < requests[c][1].req.id

\* Is ev an inbound event that holds a request of the given methods?
IsRequestOf(ev, methods) ==
  ev.decrypts /\ ev.json /\ ev.type = "Request" /\ ev.method \in methods

\* C6: every entry of a pending queue is a SignEvent request; every SignEvent
\* request the loop received is in the queue or was removed from it, once;
\* and every SignEvent request delivered to a connection is going to be
\* received by its loop, whatever was delivered before it.
C6_QueueMembership ==
  \A c \in ConnIds :
    /\ \A i \in 1..Len(requests[c]) :
         /\ requests[c][i].req.type = "Request"
         /\ requests[c][i].req.method = "sign_event"
    /\ \A i \in 1..Len(handled[c]) :
         IsRequestOf(handled[c][i], {"sign_event"}) =>
           Cardinality({ k \in 1..(Len(removed[c]) + Len(requests[c])) :
                         (LogIds(removed[c]) \o QueueIds(requests[c]))[k]
                           = handled[c][i].id }) = 1
    /\ \A i \in 1..Len(inbox[c]) :
         IsRequestOf(inbox[c][i], {"sign_event"}) => loop[c] = "running"

\* The loop of connection c received one more notification in this step.
Received(c) == Len(handled'[c]) = Len(handled[c]) + 1

\* C7: for a Describe or GetPublicKey request the loop sends exactly one
\* response, to the sender of the request, with the id of the request and the
\* fixed list of methods, respectively the public key of the connection's
\* key signer; nothing is queued, signed or notified.
C7_AnsweredAtOnce_step ==
  \A c \in ConnIds :
    (Received(c) /\ IsRequestOf(Last(handled'[c]), {"describe", "get_public_key"})) =>
      LET ev == Last(handled'[c]) IN
      /\ Len(published'[c]) = Len(published[c]) + 1
      /\ SubSeq(published'[c], 1, Len(published[c])) = published[c]
      /\ Last(published'[c]).by = "listen"
      /\ Last(published'[c]).to = ev.sender
      /\ Last(published'[c]).msg =
           [type |-> "Response", id |-> ev.id, method |-> "",
            params |->
              IF ev.method = "describe"
              THEN [kind |-> "Describe",
                    value |-> <<"describe", "get_public_key", "sign_event">>]
              ELSE [kind |-> "GetPublicKey", value |-> conns[c].key_signer]]
      /\ requests' = requests
      /\ signed' = signed
      /\ EVENT_QUEUE' = EVENT_QUEUE

C7_AnsweredAtOnce == [][C7_AnsweredAtOnce_step]_vars

\* A Describe and a GetPublicKey request were received and answered, and the
\* queue is empty.
C7_Witness ==
  \E c \in ConnIds :
    /\ \E i, j \in 1..Len(published[c]) :
         /\ published[c][i].by = "listen" /\ published[c][i].ok
         /\ published[c][i].msg.params.kind = "Describe"
         /\ published[c][j].by = "listen" /\ published[c][j].ok
         /\ published[c][j].msg.params.kind = "GetPublicKey"
    /\ Len(handled[c]) = 2
    /\ requests[c] = <<>>

\* C8: a request of a method that is not routed (Connect included), a request
\* that cannot be extracted, and a response cause no send, no queue entry and
\* no notification, and the loop keeps running.
C8_Ignored_step ==
  \A c \in ConnIds :
    (/\ Received(c)
     /\ Last(handled'[c]).decrypts /\ Last(handled'[c]).json
     /\ ~IsRequestOf(Last(handled'[c]), {"describe", "get_public_key", "sign_event"})) =>
      /\ published' = published
      /\ requests' = requests
      /\ EVENT_QUEUE' = EVENT_QUEUE
      /\ signed' = signed
      /\ loop'[c] = "running"

C8_Ignored == [][C8_Ignored_step]_vars

\* A Connect request, a request of an unknown method and a response were
\* received; nothing was sent or queued and the loop runs.
C8_Witness ==
  \E c \in ConnIds :
    /\ Len(handled[c]) = 3
    /\ \E i \in 1..3 : handled[c][i].method = "connect"
    /\ \E i \in 1..3 : handled[c][i].method = "delegate"
    /\ \E i \in 1..3 : handled[c][i].type = "Response"
    /\ \A i \in 1..Len(published[c]) : published[c][i].by = "connect"
    /\ requests[c] = <<>>
    /\ EVENT_QUEUE[c] = <<"SignerConnected">>
    /\ loop[c] = "running"

\* C9: connect with a malformed URI stores no connection and spawns nothing;
\* unless the Signer reports Connected it fails with the parse error, and a
\* status() of NotConnected stays NotConnected.
C9_MalformedUri_step ==
  \A u \in MalformedUris, f \in BOOLEAN :
    connect(u, f) =>
      /\ connection' = connection
      /\ conns' = conns
      /\ ctask' = ctask
      /\ loop' = loop
      /\ relay' = relay
      /\ requests' = requests
      /\ get_connection_status(f) # "Connected" =>
           status' = <<"error", "Could not connect to relay: ", "ParseError">>
      /\ get_connection_status(FALSE) = "NotConnected" =>
           (get_connection_status(FALSE))' = "NotConnected"

C9_MalformedUri == [][C9_MalformedUri_step]_vars

\* A connect with a malformed URI was refused by a Signer without connection.
C9_Witness ==
  /\ status = <<"error", "Could not connect to relay: ", "ParseError">>
  /\ connection = 0
  /\ conns = <<>>
  /\ \A c \in ConnIds : ctask[c] = "none" /\ loop[c] = "none"
  /\ get_connection_status(FALSE) = "NotConnected"

\* C10: disconnect_action returns only once the spawned relay_disconnect has
\* succeeded, failed or dropped its channel, and in each case the Signer then
\* holds no connection and status() is NotConnected.
C10_Disconnect_state ==
  op.pc = "disconnecting" => (connection # 0 /\ dtask # "none")

C10_Disconnect_step ==
  (op.pc = "disconnecting" /\ op'.pc # "disconnecting") =>
    /\ dtask \in {"ok", "err", "dropped"}
    /\ op'.pc = "idle"
    /\ connection' = 0
    /\ \A f \in BOOLEAN : (get_connection_status(f))' = "NotConnected"

C10_Disconnect == [](C10_Disconnect_state) /\ [][C10_Disconnect_step]_vars

\* The only connection was given up although its relay is still connected:
\* the transport disconnect had failed (the connect task had ended before, and
\* nothing else reconnects a relay that was terminated).
C10_Witness ==
  /\ connection = 0
  /\ Len(conns) = 1
  /\ ctask[1] = "done"
  /\ relay[1] = "connected"
  /\ op.pc = "idle"
  /\ status = <<"info", "Signer disconnected">>

\* The relays of the client of connection c that report the given status.
Endpoints(c, st) == IF relay[c] = st THEN {conns[c].relay_str} ELSE {}

\* C11: the connection status is a function of the connection the Signer
\* holds now and of what its relays report now: NotConnected without a
\* connection; with one, Connected when a relay is connected, else Connecting
\* when a relay is connecting, else NotConnected; and NotConnected whenever
\* the query of the relays fails.
C11_StatusFromTransport ==
  /\ get_connection_status(TRUE) = "NotConnected"
  /\ connection = 0 => get_connection_status(FALSE) = "NotConnected"
  /\ connection # 0 =>
       /\ Endpoints(connection, "connected") # {} =>
            get_connection_status(FALSE) = "Connected"
       /\ (Endpoints(connection, "connected") = {}
             /\ Endpoints(connection, "connecting") # {}) =>
            get_connection_status(FALSE) = "Connecting"
       /\ (Endpoints(connection, "connected") = {}
             /\ Endpoints(connection, "connecting") = {}) =>
            get_connection_status(FALSE) = "NotConnected"

\* The Signer holds its second connection, whose relay is connecting, while
\* the relay of the first one is connected: the status is Connecting, and
\* NotConnected when the query fails.
C11_Witness ==
  /\ connection = 2
  /\ relay[1] = "connected"
  /\ relay[2] = "connecting"
  /\ get_connection_status(FALSE) = "Connecting"
  /\ get_connection_status(TRUE) = "NotConnected"

\* C12: an inbound event that does not decrypt is dropped: nothing is sent,
\* queued, signed or notified for it, and the loop keeps running with the
\* notifications behind it; a loop that ended did not end on such an event.
C12_DecryptFailure_state ==
  \A c \in ConnIds :
    loop[c] = "terminated" => (handled[c] # <<>> /\ Last(handled[c]).decrypts)

C12_DecryptFailure_step ==
  \A c \in ConnIds :
    (Received(c) /\ ~Last(handled'[c]).decrypts) =>
      /\ published' = published
      /\ requests' = requests
      /\ EVENT_QUEUE' = EVENT_QUEUE
      /\ signed' = signed
      /\ loop'[c] = "running"
      /\ inbox'[c] = Tail(inbox[c])

C12_DecryptFailure ==
  [](C12_DecryptFailure_state) /\ [][C12_DecryptFailure_step]_vars

\* An event that did not decrypt was dropped, and a sign_event request that
\* came after it was received and queued.
C12_Witness ==
  \E c \in ConnIds :
    /\ Len(handled[c]) = 2
    /\ ~handled[c][1].decrypts
    /\ IsRequestOf(handled[c][2], {"sign_event"})
    /\ Len(requests[c]) = 1
    /\ requests[c][1].req.id = handled[c][2].id
    /\ loop[c] = "running"

\* C13: no inbound event ends the listen loop: after an event that decrypts,
\* whether it is an envelope or not and whether the send of its response or
\* the push of its notification succeeds or not, the loop is still running.
C13_LoopSurvives ==
  [][\A c \in ConnIds :
       (Received(c) /\ Last(handled'[c]).decrypts) => loop'[c] = "running"]_vars

\* C14: process-first on a queue that is not empty ends with the head removed,
\* with the same status text and without a panic, whether the signing and the
\* send succeeded or not; a removed request is not queued again, and no request
\* is signed twice or answered twice, or answered after its signing failed.
C14_ProcessAlwaysRemoves_state ==
  \A c \in ConnIds :
    /\ NoDuplicates(LogIds(signed[c]))
    /\ \A i \in 1..Len(removed[c]), k \in 1..Len(requests[c]) :
         removed[c][i].id # requests[c][k].req.id
    /\ \A i, j \in 1..Len(published[c]) :
         (published[c][i].by = "process" /\ published[c][j].by = "process"
            /\ published[c][i].msg.id = published[c][j].msg.id) => i = j
    /\ \A i \in 1..Len(signed[c]), j \in 1..Len(published[c]) :
         (~signed[c][i].ok /\ published[c][j].by = "process") =>
           published[c][j].msg.id # signed[c][i].id

C14_ProcessAlwaysRemoves_step ==
  /\ (op.pc = "process" /\ requests[op.conn] # <<>> /\ op' # op) =>
       /\ ~panicked'
       /\ op'.pc \in {"idle", "sending"}
       /\ op'.pc = "sending" =>
            (requests' = requests /\ Last(signed'[op.conn]).ok)
  /\ (op.pc \in {"process", "sending"} /\ requests[op.conn] # <<>>
        /\ op'.pc = "idle") =>
       /\ requests' = [requests EXCEPT ![op.conn] = Tail(@)]
       /\ Last(removed'[op.conn]).id = requests[op.conn][1].req.id
       /\ status' = <<"info", "Processed request", op.desc>>
       /\ ~panicked'

C14_ProcessAlwaysRemoves ==
  [](C14_ProcessAlwaysRemoves_state) /\ [][C14_ProcessAlwaysRemoves_step]_vars

\* One request was removed after its signing failed and another after the
\* send of its response failed; the queue is empty and the operator is idle.
C14_Witness ==
  \E c \in ConnIds :
    /\ requests[c] = <<>>
    /\ op.pc = "idle"
    /\ Len(removed[c]) = 2
    /\ \E i \in 1..Len(signed[c]) :
         ~signed[c][i].ok /\ signed[c][i].id = removed[c][1].id
    /\ \E j \in 1..Len(published[c]) :
         /\ published[c][j].by = "process" /\ ~published[c][j].ok
         /\ published[c][j].msg.id = removed[c][2].id

\* Is the head of the queue of connection c a SignEvent request?
HeadIsSignEvent(c) ==
  /\ requests[c] # <<>>
  /\ requests[c][1].req.type = "Request"
  /\ requests[c][1].req.method = "sign_event"

\* C15: process-first on a SignEvent head calls sign once, on the id of the
\* head's unsigned event; after a signature it sends one response, with the
\* head's request id and that signature, to the sender stored with the head,
\* and removes the head; without a signature it sends nothing.
C15_ProcessSignsHead_step ==
  /\ (op.pc = "process" /\ HeadIsSignEvent(op.conn) /\ op' # op) =>
       LET c == op.conn
           head == requests[c][1] IN
       /\ Len(signed'[c]) = Len(signed[c]) + 1
       /\ SubSeq(signed'[c], 1, Len(signed[c])) = signed[c]
       /\ Last(signed'[c]).id = head.req.id
       /\ Last(signed'[c]).bytes = head.req.params.id
       /\ published' = published
       /\ op'.pc = "sending" <=> Last(signed'[c]).ok
  /\ (op.pc = "sending" /\ op' # op) =>
       LET c == op.conn
           head == requests[c][1] IN
       /\ signed' = signed
       /\ Len(published'[c]) = Len(published[c]) + 1
       /\ SubSeq(published'[c], 1, Len(published[c])) = published[c]
       /\ Last(published'[c]).to = head.sender_pubkey
       /\ Last(published'[c]).msg =
            [type |-> "Response", id |-> head.req.id, method |-> "",
             params |-> [kind |-> "SignEvent",
                         value |-> <<"sig", conns[c].key_signer,
                                     <<"hash", head.req.params.content>> >>]]
       /\ requests' = [requests EXCEPT ![c] = Tail(@)]
       /\ Last(removed'[c]).id = head.req.id

C15_ProcessSignsHead == [][C15_ProcessSignsHead_step]_vars

\* The response for a request of pkB was sent to pkB by a connection whose
\* client (the public key of the connect URI) is pkA.
C15_Witness ==
  \E c \in ConnIds :
    /\ c <= Len(conns)
    /\ conns[c].client_pubkey = "pkA"
    /\ \E j \in 1..Len(published[c]) :
         /\ published[c][j].by = "process" /\ published[c][j].ok
         /\ published[c][j].to = "pkB"
         /\ \E i \in 1..Len(removed[c]) :
              removed[c][i].id = published[c][j].msg.id

\* C16: ignore-first on a queue that is not empty removes the head and leaves
\* the rest of the queue in its order; nothing is signed, sent or notified,
\* and the connection, its relay and its tasks are as they were.
C16_IgnoreRemovesHead ==
  [][(op.pc = "ignore" /\ requests[op.conn] # <<>> /\ op' # op) =>
       /\ requests' = [requests EXCEPT ![op.conn] = Tail(@)]
       /\ op'.pc = "idle"
       /\ ~panicked'
       /\ signed' = signed
       /\ published' = published
       /\ EVENT_QUEUE' = EVENT_QUEUE
       /\ inbox' = inbox
       /\ lock' = lock
       /\ connection' = connection
       /\ conns' = conns
       /\ relay' = relay
       /\ ctask' = ctask
       /\ loop' = loop]_vars

\* The first of three queued requests was ignored: the other two are queued
\* in the order they came, nothing was signed and nothing sent for a request.
C16_Witness ==
  \E c \in ConnIds :
    /\ Len(removed[c]) = 1 /\ removed[c][1].how = "ignore"
    /\ Len(requests[c]) = 2
    /\ removed[c][1].id < requests[c][1].req.id
    /\ requests[c][1].req.id < requests[c][2].req.id
    /\ signed[c] = <<>>
    /\ \A i \in 1..Len(published[c]) : published[c][i].by = "connect"
    /\ op.pc = "idle"

\* C17: while the Signer holds a connection none of whose relays has become
\* connected (the relay is not added yet, was not added because add_relay
\* failed, is added, or is connecting), the status is Connecting.
C17_ConnectingUntilConnected ==
  (connection # 0 /\ op.pc = "idle"
     /\ relay[connection] \in {"none", "initialized", "connecting"}) =>
    get_connection_status(FALSE) = "Connecting"

\* C18: the keys of the relay client differ between any two connections the
\* Signer created, and differ from the key that signs.
C18_FreshSessionKeys ==
  /\ \A i, j \in 1..Len(conns) :
       i # j => conns[i].app_id_keys # conns[j].app_id_keys
  /\ \A i \in 1..Len(conns) : conns[i].app_id_keys # conns[i].key_signer

\* The preview of a content: the content when it has fewer characters than
\* the preview length, else its first characters of that number and "..".
C19_Preview(content) ==
  IF Len(content) < PREVIEW_CONTENT_LEN THEN content
  ELSE SubSeq(content, 1, PREVIEW_CONTENT_LEN) \o <<".", ".">>

\* C19: reading the description of the first request returns normally and
\* leaves the queue as it is; the description is "-" exactly when the queue is
\* empty, and for a SignEvent request at the head it holds the preview of the
\* content of that request.
C19_PeekDescription ==
  [][(op.pc = "idle" /\ connection # 0 /\ op' # op) =>
       LET q == requests[connection] IN
       /\ requests' = requests
       /\ ~panicked'
       /\ (op'.desc = <<"-">>) <=> (q = <<>>)
       /\ q # <<>> =>
            op'.desc = <<"Signature requested for message: '",
                         C19_Preview(q[1].req.params.content), "'">>]_vars

\* C20: with keys set, KeysClear, KeysGenerate and KeysLoad leave the keys as
\* they are and open the confirmation dialog (which records the action to do
\* after the clearing); ConfirmationNo leaves the keys as they are and no
\* dialog open; without keys, KeysClear does not touch the dialog.
C20_ConfirmBeforeClear_step ==
  \A ok \in BOOLEAN :
    /\ \A a \in {"KeysClear", "KeysGenerate", "KeysLoad"} :
         (keys_is_set(own_keys) /\ KeystrModel_action(a, ok)) =>
           /\ own_keys' = own_keys
           /\ keygen' = keygen
           /\ modal'.open
           /\ modal'.next = IF a = "KeysClear" THEN "None" ELSE a
    /\ KeystrModel_action("ConfirmationNo", ok) =>
         /\ own_keys' = own_keys
         /\ ~modal'.open
    /\ (~keys_is_set(own_keys) /\ KeystrModel_action("KeysClear", ok)) =>
         /\ modal' = modal
         /\ ~keys_is_set(own_keys')

C20_ConfirmBeforeClear == [][C20_ConfirmBeforeClear_step]_vars

\* The second generated keypair is set and the dialog is open for a KeysLoad.
C20_Witness ==
  /\ keygen = 2
  /\ own_keys = "generated_pk2"
  /\ modal.open
  /\ modal.next = "KeysLoad"

\* C21: ConfirmationYes with the KeysClearBeforeAction dialog open closes the
\* dialog, clears the keys and runs the recorded action once, on cleared keys:
\* after a plain KeysClear prompt no keys are set; after a KeysGenerate prompt
\* exactly one new keypair was generated and is set; after a KeysLoad prompt
\* the load ran once, and the keys are those of the storage or none; in every
\* case no dialog is open afterwards.
C21_ConfirmationYes_step ==
  \A ok \in BOOLEAN :
    (modal.open /\ KeystrModel_action("ConfirmationYes", ok)) =>
      /\ ~modal'.open
      /\ modal.next = "None" =>
           /\ ~keys_is_set(own_keys')
           /\ keygen' = keygen
           /\ status' = <<"info", "Keys cleared">>
      /\ modal.next = "KeysGenerate" =>
           /\ keygen' = keygen + 1
           /\ own_keys' = Keystore_generate(keygen + 1)
           /\ own_keys' # own_keys
           /\ status' = <<"info", "New keypair generated">>
      /\ modal.next = "KeysLoad" =>
           /\ keygen' = keygen
           /\ own_keys' = (IF ok THEN SignerPubkey ELSE "none")
           /\ status' = <<"load_action", IF ok THEN "Ok" ELSE "Err">>

C21_ConfirmationYes == [][C21_ConfirmationYes_step]_vars

\* A KeysGenerate prompt was confirmed over the first generated keypair: the
\* second keypair is set and no dialog is open.
C21_Witness ==
  /\ keygen = 2
  /\ own_keys = "generated_pk2"
  /\ ~modal.open
  /\ status = <<"info", "New keypair generated">>

\* What the listen loop does with a received event.
HowHandled(ev) ==
  IF ev.decrypts /\ ev.json THEN route(EnvelopeOf(ev)) ELSE "drop"

\* The ids of the events of a log that were handled in the way how.
HandledIds(l, how) ==
  LogIds(SelectSeq(l, LAMBDA ev : HowHandled(ev) = how))

\* The ids of the requests that the listen loop answered, in the order of
\* the publishing.
AnsweredIds(c) ==
  LET answers == SelectSeq(published[c], LAMBDA m : m.by = "listen") IN
  [i \in 1..Len(answers) |-> answers[i].msg.id]

\* C22: on every connection made the events are handled in the order of their
\* arrival, one after the other: the handled events followed by the waiting
\* ones are in arrival order, the immediate responses were published in the
\* arrival order of their requests, and the requests taken from the pending
\* queue followed by those in it are the stored SignEvent requests in their
\* arrival order; a turn of the loop handles the oldest waiting event, whole.
C22_ArrivalOrder_state ==
  \A c \in 1..NConns :
    /\ StrictlyIncreasing(LogIds(handled[c]) \o LogIds(inbox[c]))
    /\ AnsweredIds(c) = HandledIds(handled[c], "answer")
    /\ LogIds(removed[c]) \o QueueIds(requests[c])
         = HandledIds(handled[c], "enqueue")

C22_ArrivalOrder_step ==
  \A c \in 1..NConns :
    Received(c) =>
      /\ handled'[c] = Append(handled[c], Head(inbox[c]))
      /\ inbox'[c] = Tail(inbox[c])
      /\ HowHandled(Head(inbox[c])) = "answer" =>
           Len(published'[c]) = Len(published[c]) + 1
      /\ HowHandled(Head(inbox[c])) = "enqueue" =>
           /\ Len(requests'[c]) = Len(requests[c]) + 1
           /\ Last(requests'[c]).req.id = Head(inbox[c]).id

C22_ArrivalOrder == [](C22_ArrivalOrder_state) /\ [][C22_ArrivalOrder_step]_vars

\* Three events were handled on connection 1, with answers published and
\* two SignEvent requests stored, while the first of these is still pending
\* or already taken.
C22_Witness ==
  /\ Len(handled[1]) = 3
  /\ Len(AnsweredIds(1)) = 1
  /\ Len(HandledIds(handled[1], "enqueue")) = 2
  /\ HowHandled(handled[1][2]) = "answer"
  /\ Len(requests[1]) = 1
  /\ Len(removed[1]) = 1

\* C23: disconnect does not cancel the listen task: no step of a disconnect
\* (its begin, the spawned relay_disconnect, the end of disconnect_action) and
\* no connect changes a listen loop, and a running loop stays running as long
\* as it receives nothing, so the loop of an earlier
\* connection runs on, for that connection, while the Signer holds no
\* connection or a newer one.
C23_LoopOutlivesDisconnect_step ==
  /\ (dtask' # dtask \/ connection' # connection) => loop' = loop
  /\ \A c \in ConnIds :
       (loop[c] = "running" /\ inbox'[c] = inbox[c]) => loop'[c] = "running"

C23_LoopOutlivesDisconnect == [][C23_LoopOutlivesDisconnect_step]_vars

\* After a disconnect that tore the transport of connection 1 down and a
\* reconnect, connection 2 is the Signer's connection and the listen loops of
\* both connections are running.
C23_Witness ==
  /\ connection = 2
  /\ relay[1] = "terminated"
  /\ loop[1] = "running"
  /\ loop[2] = "running"
  /\ op.pc = "idle"

\* The steps of the connect task, in their order.
ConnectTaskOrder ==
  { <<"none", "add_relay">>, <<"add_relay", "connect">>,
    <<"add_relay", "failed">>, <<"connect", "send_ack">>,
    <<"send_ack", "done">>, <<"send_ack", "failed">> }

\* C24: the connect task goes through its steps in one order: register the
\* endpoint, connect the transport and start the listen loop, send the Connect
\* request, push SignerConnected.  Before the endpoint is registered there is
\* no transport, loop, handshake or notification; the loop runs before the
\* handshake is sent; SignerConnected is pushed at most once per connection
\* and only with a handshake that was sent successfully; when registering
\* fails there is no loop, and when the handshake fails there is no
\* SignerConnected while the loop is running.
C24_ConnectSequence_state ==
  \A c \in ConnIds :
    /\ Len(published[c]) <= 1
    /\ Len(EVENT_QUEUE[c]) <= 1
    /\ ctask[c] \in {"none", "add_relay"} =>
         relay[c] = "none" /\ loop[c] = "none"
    /\ ctask[c] = "connect" => relay[c] # "none" /\ loop[c] = "none"
    /\ ctask[c] \in {"none", "add_relay", "connect", "send_ack"} =>
         published[c] = <<>> /\ EVENT_QUEUE[c] = <<>>
    /\ ctask[c] \in {"send_ack", "done"} =>
         relay[c] \notin {"none", "initialized"} /\ loop[c] = "running"
    /\ ctask[c] = "done" =>
         /\ published[c] = << [by |-> "connect", to |-> conns[c].client_pubkey,
                                msg |-> MsgRequest(0, "connect", <<AppIdKeys>>),
                                ok |-> TRUE] >>
         /\ EVENT_QUEUE[c] = <<"SignerConnected">>
    /\ ctask[c] = "failed" =>
         /\ published[c] = <<>> => relay[c] = "none" /\ loop[c] = "none"
         /\ published[c] # <<>> => loop[c] = "running"
    /\ EVENT_QUEUE[c] # <<>> =>
         /\ EVENT_QUEUE[c] = <<"SignerConnected">>
         /\ published[c] # <<>> /\ published[c][1].ok
         /\ ctask[c] = "done"
    /\ (published[c] # <<>> /\ ~published[c][1].ok) =>
         EVENT_QUEUE[c] = <<>> /\ ctask[c] = "failed" /\ loop[c] = "running"

C24_ConnectSequence_step ==
  \A c \in ConnIds :
    /\ ctask'[c] # ctask[c] => <<ctask[c], ctask'[c]>> \in ConnectTaskOrder
    /\ (ctask[c] = "add_relay" /\ ctask'[c] = "failed") =>
         loop'[c] = "none" /\ published'[c] = <<>>
    /\ (loop[c] = "none" /\ loop'[c] = "running") =>
         /\ ctask[c] = "connect"
         /\ relay[c] # "none"
         /\ relay'[c] \in {"connecting", "connected"}
    /\ published'[c] # published[c] => loop[c] = "running"
    /\ EVENT_QUEUE'[c] # EVENT_QUEUE[c] =>
         /\ ctask[c] = "send_ack"
         /\ Last(published'[c]).ok
         /\ Last(published'[c]).by = "connect"

C24_ConnectSequence ==
  [](C24_ConnectSequence_state) /\ [][C24_ConnectSequence_step]_vars

\* The handshake of connection 1 failed: its task has ended, nothing was
\* pushed, and its listen loop is running.
C24_Witness ==
  /\ ctask[1] = "failed"
  /\ Len(published[1]) = 1
  /\ ~published[1][1].ok
  /\ EVENT_QUEUE[1] = <<>>
  /\ loop[1] = "running"

\* The number of SignerNewRequest notifications pushed for connection c.
NewRequestCount(c) ==
  Len(SelectSeq(EVENT_QUEUE[c], LAMBDA e : e = "SignerNewRequest"))

\* C25: one SignerNewRequest is pushed for every SignEvent request appended
\* to the pending queue, and none for another event: there are as many
\* notifications as requests that were appended; a notification is pushed
\* only by the turn of the loop that appended a SignEvent request, with the
\* request in the queue, and every such turn pushes one.
C25_NotifiedPerRequest_state ==
  \A c \in ConnIds :
    NewRequestCount(c) = Len(removed[c]) + Len(requests[c])

C25_NotifiedPerRequest_step ==
  \A c \in ConnIds :
    /\ EVENT_QUEUE'[c] # EVENT_QUEUE[c] =>
         /\ EVENT_QUEUE'[c] = Append(EVENT_QUEUE[c], "SignerNewRequest")
         /\ Received(c)
         /\ HowHandled(Head(inbox[c])) = "enqueue"
         /\ requests'[c] # <<>>
         /\ Last(requests'[c]).req.id = Head(inbox[c]).id
    /\ (Received(c) /\ HowHandled(Head(inbox[c])) = "enqueue") =>
         EVENT_QUEUE'[c] = Append(EVENT_QUEUE[c], "SignerNewRequest")

C25_NotifiedPerRequest ==
  [](C25_NotifiedPerRequest_state) /\ [][C25_NotifiedPerRequest_step]_vars

\* C26: pending_process_first_action processes the request whose description
\* it read: when action_first_req_process takes the first request of the
\* queue (to sign it or to drop it), the description read before is the
\* description of that request, and it is not the "-" of the empty queue;
\* the status text at the end carries that description.
C26_ReportsProcessed_step ==
  /\ (op.pc = "process" /\ op' # op /\ ~panicked') =>
       /\ op.desc # <<"-">>
       /\ op.desc = description(requests[op.conn][1])
  /\ signed' # signed => op.desc # <<"-">>
  /\ (op.pc \in {"process", "sending"} /\ op'.pc = "idle") =>
       /\ status' = <<"info", "Processed request",
                       description(requests[op.conn][1])>>
       /\ Last(removed'[op.conn]).id = requests[op.conn][1].req.id

C26_ReportsProcessed == [][C26_ReportsProcessed_step]_vars

\* C27: process-first cannot deadlock with the listen loop: while the UI
\* thread holds the mutex of the queue and waits for the publish task, the
\* publish task can run, whether or not a listen task waits for the mutex;
\* and a listen task that waited for the mutex can go on once it is free.
C27_NoDeadlock ==
  /\ op.pc = "sending" => ENABLED (\E ok \in BOOLEAN : send_message_blocking(ok))
  /\ \A c \in ConnIds :
       (loop[c] = "locking" /\ lock[c] = "free") =>
         ENABLED (\E s \in BOOLEAN, p \in BOOLEAN : wait_and_handle_messages(c, s, p))

\* The ids of the requests of a log of signatures.
SignedIds(c) == [i \in 1..Len(signed[c]) |-> signed[c][i].id]

\* The ids in a sequence of ids.
IdSet(ids) == { ids[i] : i \in 1..Len(ids) }

\* C28: the pending queues are per connection and never carried over: a
\* connection starts with an empty queue; the requests in the queue of a
\* connection, and the requests signed on it, were received by its own listen
\* loop; a listen loop stores a request in the queue of its own connection
\* only; and once a connection is not the Signer's connection any more,
\* nothing is signed or removed on it, so what was pending at its disconnect
\* or stored later by its loop stays unsigned.
C28_QueuePerConnection_state ==
  /\ connection \in {0, NConns}
  /\ \A c \in ConnIds :
       /\ c > NConns => requests[c] = <<>>
       /\ IdSet(QueueIds(requests[c])) \subseteq IdSet(LogIds(handled[c]))
       /\ IdSet(SignedIds(c)) \subseteq IdSet(LogIds(handled[c]))
       /\ \A d \in ConnIds :
            d # c => IdSet(QueueIds(requests[c])) \cap IdSet(LogIds(handled[d])) = {}

C28_QueuePerConnection_step ==
  \A c \in ConnIds :
    /\ (connection' = c /\ connection # c) =>
         requests'[c] = <<>> /\ signed'[c] = <<>> /\ handled'[c] = <<>>
    /\ Received(c) => \A d \in ConnIds : d # c => requests'[d] = requests[d]
    /\ (signed'[c] # signed[c] \/ removed'[c] # removed[c]
          \/ Len(requests'[c]) < Len(requests[c])) =>
         c = connection /\ c = NConns
    /\ (c # connection /\ op.pc = "idle") =>
         signed'[c] = signed[c] /\ removed'[c] = removed[c]

C28_QueuePerConnection ==
  [](C28_QueuePerConnection_state) /\ [][C28_QueuePerConnection_step]_vars

\* Connection 2 is the Signer's connection and the request that arrived on
\* it first was signed there; the request that arrived after it, on
\* connection 1, was stored by the loop of connection 1 in the queue of
\* connection 1 and is pending there.
C28_Witness ==
  /\ connection = 2
  /\ op.pc = "idle"
  /\ Len(signed[2]) = 1 /\ signed[2][1].id = 1
  /\ requests[2] = <<>>
  /\ Len(requests[1]) = 1 /\ requests[1][1].req.id = 2
  /\ signed[1] = <<>>

====
